---- MODULE Spec2Model ----
(***************************************************************************)
(* Middle layer of libffi-rs (src/middle/mod.rs): Cif, Closure and         *)
(* ClosureOnce over the low layer's engine primitives.                     *)
(*                                                                         *)
(* Memory is modelled explicitly.  Every heap object lives at an address   *)
(* taken from the bump pointer brk; addresses are never reused.  Released  *)
(* descriptor and captured-state storage leaves its heap, a released       *)
(* trampoline block stays, marked "freed" and counting its releases.  A    *)
(* read through an address whose object is gone is undefined behaviour: it *)
(* yields junk.  Values are small, so integer width plays no part.         *)
(***************************************************************************)
EXTENDS Integers, Sequences, FiniteSets, TLC

VARIABLES
    cifs,       \* Cif objects by identity: the ffi_cif fields and the owned descriptors
    descs,      \* heap of type descriptor storage: static tables, aggregates, TypeArrays
    closures,   \* Closure / ClosureOnce objects by identity
    tramps,     \* dual-mapped trampoline blocks handed out by closure_alloc
    cells,      \* captured-state storage: borrowed environments and owned boxes
    brk,        \* next fresh address
    pending,    \* destruction in progress: the closure and its remaining drop steps
    lastOp      \* what the last operation did (steps run, panic, result)

vars == <<cifs, descs, closures, tramps, cells, brk, pending, lastOp>>

----------------------------------------------------------------------------
(* Bounds of the model *)

MaxArgs == 2        \* longest argument descriptor / argument pointer list
MaxCifs == 2        \* Cif objects ever constructed (new + clone)
MaxClosures == 1    \* trampolines ever constructed

CifIds == 1..MaxCifs
ClosureIds == 1..MaxClosures

----------------------------------------------------------------------------
(* Type descriptors (types::Type, types::TypeArray) *)

\* Primitive kinds used by the tests; their descriptors are static tables.
Prims == <<"i64", "u64">>
PrimKinds == {Prims[i] : i \in 1..Len(Prims)}
Kinds == PrimKinds \cup {"struct"}

\* The address of a primitive's shared static descriptor.
StaticAddr(k) == CHOOSE i \in 1..Len(Prims) : Prims[i] = k
HeapBase == Len(Prims) + 1
Null == 0

\* Released storage leaves the heap: an address outside it is dead.
DescAlive(a) == a \in DOMAIN descs

\* Sequences over S of length 0..n
SeqsUpTo(S, n) == UNION {[1..m -> S] : m \in 0..n}

\* The number of aggregates in a kind sequence: each owns one heap descriptor.
RECURSIVE NumStructs(_)
NumStructs(ks) ==
    IF ks = <<>> THEN 0
    ELSE (IF Head(ks) = "struct" THEN 1 ELSE 0) + NumStructs(Tail(ks))

\* Type::i64(), Type::u64(), Type::structure(..): the descriptor addresses of a
\* sequence of kinds, aggregates allocated one after another from address a.
TypeAddrs(ks, a) ==
    [i \in 1..Len(ks) |->
        IF ks[i] = "struct"
        THEN a + NumStructs(SubSeq(ks, 1, i - 1))
        ELSE StaticAddr(ks[i])]

\* The heap cells of the aggregates among ks, allocated from address a.
TypeCells(ks, a) ==
    LET idx == {i \in 1..Len(ks) : ks[i] = "struct"}
        at == TypeAddrs(ks, a)
    IN [x \in {at[i] : i \in idx} |-> [kind |-> "struct", elems |-> <<>>]]

\* Type::as_raw_ptr / the kind a descriptor address describes
KindAt(a) == descs[a].kind

\* TypeArray::new: the array cell owning the element descriptors.
ArrayCell(elems) == [kind |-> "array", elems |-> elems]

\* The heap addresses a Cif's fields own: the array, its aggregate elements and
\* an aggregate result.
OwnedDescs(args, result) ==
    {args} \cup {descs[args].elems[i] : i \in 1..Len(descs[args].elems)}
           \cup {result}

HeapOwned(args, result) == {a \in OwnedDescs(args, result) : a >= HeapBase}

\* Drop of TypeArray and Type: heap descriptors are released, static ones stay.
FreeDescs(h, as) == [a \in DOMAIN h \ as |-> h[a]]

----------------------------------------------------------------------------
(* ABI tags *)

ffi_abi_FFI_DEFAULT_ABI == "FFI_DEFAULT_ABI"
FfiAbi == {ffi_abi_FFI_DEFAULT_ABI, "FFI_OTHER_ABI"}

----------------------------------------------------------------------------
(* Records *)

\* origin: the Cif this one was cloned from, 0 for one made by Cif::new
NoCif == [st |-> "none", addr |-> Null, nargs |-> 0, abi |-> ffi_abi_FFI_DEFAULT_ABI,
          arg_types |-> Null, rtype |-> Null, args |-> Null, result |-> Null,
          origin |-> 0]

\* Captured-state values: a plain value, or an Option
Plain(v) == [tag |-> "val", v |-> v]
Some(v) == [tag |-> "some", v |-> v]
None == [tag |-> "none", v |-> 0]
Junk == [tag |-> "junk", v |-> 0]     \* what a read of dead storage may yield

NoBinding == [thunk |-> "none", cif |-> Null, userdata |-> Null]

\* cb, u0: the callback and captured value given to the constructor; wrote: the
\* captured value as the last invocation's callback left it.
NoClosure == [st |-> "none", kind |-> "none", cif |-> 0, alloc |-> Null, code |-> Null,
              userdata |-> Null, cb |-> "none", u0 |-> None, wrote |-> None]

\* op: the operation; obj: the object it acted on or made; steps: the steps it
\* ran, in order; verdicts: what the engine answered, in order; failed, diag, at:
\* the step that ended it, with the panic message and its source line; invoked:
\* how often low::call was reached; fun, args, ret: the call and its result;
\* seen: the captured state as the callback found it; ud: the address it was at.
NoOp == [op |-> "init", obj |-> 0, steps |-> <<>>, verdicts |-> <<>>, failed |-> "none",
         diag |-> "", at |-> 0, invoked |-> 0, fun |-> "none", args |-> <<>>,
         ret |-> 0, seen |-> None, ud |-> Null]

\* A panic: the operation unwinds with this message from this source line.
Panic(op, steps, failed, diag, at) ==
    [NoOp EXCEPT !.op = op, !.steps = steps, !.failed = failed,
                 !.diag = diag, !.at = at]

NoPending == [clo |-> 0, steps |-> <<>>]

\* No destruction is under way and the process has not been killed.
Idle == pending.steps = <<>> /\ lastOp.failed # "SIGSEGV"

FreeCifIds == {c \in CifIds : cifs[c].st = "none"}

----------------------------------------------------------------------------
(* Values and native functions of the tests *)

ArgVals == {5, 7}
Garbage == -1       \* what an undefined read or call may yield besides the right value

\* extern "C" fn add_it(n: i64, m: i64) -> i64
add_it(args) == args[1] + args[2]

\* The signatures Cifs are built for: those of the tests, and one over aggregates.
Signatures ==
    { [args |-> <<"i64", "i64">>, result |-> "i64"],
      [args |-> <<"u64">>, result |-> "u64"],
      [args |-> <<"struct">>, result |-> "struct"] }

Funs == {"add_it"}
FunSig(fun) == [args |-> <<"i64", "i64">>, result |-> "i64"]
Apply(fun, args) == add_it(args)

\* arg / Arg::new: the argument pointer refers to the caller's value; the call
\* boundary sees the pointed-to values in order.
arg(r) == r

----------------------------------------------------------------------------
(* The engine (crate::low) *)

\* low::prep_cif: on success the plan records the ABI, the argument count and the
\* addresses of the descriptor array and of the result descriptor.
prep_cif(abi, nargs, rtype, atypes) ==
    [abi |-> abi, nargs |-> nargs, arg_types |-> atypes, rtype |-> rtype]

\* The plan's addresses all refer to live descriptor storage.
PlanValid(cif) ==
    /\ DescAlive(cif.arg_types)
    /\ DescAlive(cif.rtype)
    /\ descs[cif.arg_types].kind = "array"
    /\ \A i \in 1..Len(descs[cif.arg_types].elems) :
          DescAlive(descs[cif.arg_types].elems[i])

\* The signature the plan describes, read through its addresses.
PlanSig(cif) ==
    [args |-> [i \in 1..Len(descs[cif.arg_types].elems) |->
                  KindAt(descs[cif.arg_types].elems[i])],
     result |-> KindAt(cif.rtype)]

\* low::call: marshals the pointed-to arguments per the plan and calls fun.  With
\* a dangling plan, or a plan that does not describe fun's signature, the call is
\* undefined.
low_call(cif, fun, args) ==
    IF PlanValid(cif) /\ PlanSig(cif) = FunSig(fun) /\ cif.nargs = Len(args)
    THEN {Apply(fun, args)}
    ELSE {Garbage} \cup (IF Len(args) = Len(FunSig(fun).args)
                         THEN {Apply(fun, args)} ELSE {})

----------------------------------------------------------------------------
(* Cif *)

\* Cif::new after a successful prep_cif: Cif { cif, args, result }
CifNewRec(addr, plan, args, result) ==
    [st |-> "live", addr |-> addr, nargs |-> plan.nargs, abi |-> plan.abi,
     arg_types |-> plan.arg_types, rtype |-> plan.rtype,
     args |-> args, result |-> result, origin |-> 0]

\* Cif::new(args, result): sig names the descriptors the caller built; accept is
\* the engine's verdict on them.
CifNew(sig, accept) ==
    /\ Idle
    /\ FreeCifIds # {}
    /\ LET c == CHOOSE x \in FreeCifIds : \A y \in FreeCifIds : x <= y
           argKinds == sig.args
           ks == Append(argKinds, sig.result)
           tys == TypeAddrs(ks, brk)
           elems == SubSeq(tys, 1, Len(argKinds))
           result == tys[Len(ks)]
           array == brk + NumStructs(ks)
           addr == array + 1
           nargs == Len(argKinds)
           plan == prep_cif(ffi_abi_FFI_DEFAULT_ABI, nargs, result, array)
       IN IF accept
          THEN /\ descs' = descs @@ TypeCells(ks, brk) @@ (array :> ArrayCell(elems))
               /\ cifs' = [cifs EXCEPT ![c] = CifNewRec(addr, plan, array, result)]
               /\ brk' = addr + 1
               /\ lastOp' = [NoOp EXCEPT !.op = "Cif::new", !.obj = c,
                                         !.steps = <<"prep_cif">>,
                                         !.verdicts = <<"Ok">>]
          ELSE \* .expect("low::prep_cif"): unwinding drops args and result
               /\ lastOp' = [Panic("Cif::new", <<"prep_cif">>, "prep_cif",
                                   "low::prep_cif", 131)
                                EXCEPT !.verdicts = <<"Err">>]
               /\ UNCHANGED <<descs, cifs, brk>>
    /\ UNCHANGED <<closures, tramps, cells, pending>>

\* A clone that keeps the original's plan addresses.
CifCloneShallow(self, addr, args, result) ==
    [self EXCEPT !.addr = addr, !.args = args, !.result = result]

\* impl Clone for Cif: copy the plan, clone the descriptors, re-point the plan.
CifCloneRec(self, addr, args, result) ==
    [self EXCEPT !.addr = addr, !.args = args, !.result = result,
                 !.arg_types = args, !.rtype = result]

\* TypeArray::clone and Type::clone: deep copies at fresh addresses.
CifClone(c) ==
    /\ Idle
    /\ cifs[c].st = "live"
    /\ FreeCifIds # {}
    /\ LET d == CHOOSE x \in FreeCifIds : \A y \in FreeCifIds : x <= y
           self == cifs[c]
           src == descs[self.args].elems
           ks == Append([i \in 1..Len(src) |-> KindAt(src[i])], KindAt(self.result))
           tys == TypeAddrs(ks, brk)
           elems == SubSeq(tys, 1, Len(src))
           result == tys[Len(ks)]
           array == brk + NumStructs(ks)
           addr == array + 1
       IN /\ descs' = descs @@ TypeCells(ks, brk) @@ (array :> ArrayCell(elems))
          /\ cifs' = [cifs EXCEPT ![d] =
                          [CifCloneRec(self, addr, array, result) EXCEPT !.origin = c]]
          /\ brk' = addr + 1
          /\ lastOp' = [NoOp EXCEPT !.op = "Cif::clone", !.obj = d, !.ret = c]
    /\ UNCHANGED <<closures, tramps, cells, pending>>

\* The fields of a dropped Cif: its descriptors are released.
DropCifRec(self) == [NoCif EXCEPT !.st = "dropped"]

\* Drop of a Cif the caller still owns.
CifDrop(c) ==
    /\ Idle
    /\ cifs[c].st = "live"
    /\ descs' = FreeDescs(descs, HeapOwned(cifs[c].args, cifs[c].result))
    /\ cifs' = [cifs EXCEPT ![c] = DropCifRec(@)]
    /\ lastOp' = [NoOp EXCEPT !.op = "Cif::drop", !.obj = c]
    /\ UNCHANGED <<closures, tramps, cells, brk, pending>>

\* An argument count check that lets shorter lists through.
ArgCountAtMost(cif, args) == Len(args) <= cif.nargs

\* assert_eq!(self.cif.nargs as usize, args.len(), ...)
ArgCountOk(cif, args) == cif.nargs = Len(args)

\* A call that hands the engine the first argument pointer for every argument.
CallArgsFirstOnly(args) == [i \in 1..Len(args) |-> arg(args[1])]

\* args.as_ptr(): the argument pointers as passed to low::call
CallArgs(args) == [i \in 1..Len(args) |-> arg(args[i])]

\* Cif::call(fun, args)
CifCall(c, fun, args) ==
    /\ Idle
    /\ cifs[c].st = "live"
    /\ IF ~ArgCountOk(cifs[c], args)
       THEN lastOp' = [Panic("Cif::call", <<"assert_eq">>, "nargs",
                             "Cif::call: passed wrong number of arguments", 149)
                          EXCEPT !.obj = c, !.fun = fun, !.args = args]
       ELSE \E r \in low_call(cifs[c], fun, CallArgs(args)) :
               lastOp' = [NoOp EXCEPT !.op = "Cif::call", !.obj = c,
                                      !.steps = <<"assert_eq", "low::call">>,
                                      !.invoked = 1, !.ret = r,
                                      !.fun = fun, !.args = args]
    /\ UNCHANGED <<cifs, descs, closures, tramps, cells, brk, pending>>

\* A set_abi that re-initialises the plan's argument count.
SetAbiResetsCount(self, abi) == [self EXCEPT !.abi = abi, !.nargs = 0]

\* Cif::set_abi(abi): self.cif.abi = abi
SetAbiRec(self, abi) == [self EXCEPT !.abi = abi]

CifSetAbi(c, abi) ==
    /\ Idle
    /\ cifs[c].st = "live"
    /\ cifs' = [cifs EXCEPT ![c] = SetAbiRec(@, abi)]
    /\ lastOp' = [NoOp EXCEPT !.op = "Cif::set_abi", !.obj = c]
    /\ UNCHANGED <<descs, closures, tramps, cells, brk, pending>>

\* Cif::as_raw_ptr(): the address of the plan inside the Cif
CifAsRawPtr(c) ==
    /\ Idle
    /\ cifs[c].st = "live"
    /\ lastOp' = [NoOp EXCEPT !.op = "Cif::as_raw_ptr", !.obj = c,
                              !.ret = cifs[c].addr]
    /\ UNCHANGED <<cifs, descs, closures, tramps, cells, brk, pending>>

----------------------------------------------------------------------------
(* Callbacks *)

UVals == {5, 6}

\* let env = |x: u64, y: u64| x + y
rust_lambda(x, y) == x + y
Lambda == [tag |-> "fn", v |-> 0]

\* The callbacks each constructor is exercised with, and the captured values.
CallbacksOf(kind) ==
    IF kind = "Closure::new" THEN {"callback", "callback2"}
    ELSE IF kind = "Closure::new_mut" THEN {"callback_mut"}
    ELSE {"callback_once"}

UserdataOf(cb) == IF cb = "callback2" THEN {Lambda} ELSE {Plain(u) : u \in UVals}

CallbackSig(cb) ==
    IF cb = "callback2" THEN [args |-> <<"u64", "u64">>, result |-> "u64"]
    ELSE [args |-> <<"u64">>, result |-> "u64"]

\* unsafe extern "C" fn callback(_cif, result, args, userdata: &u64)
callback(X, u) == [ret |-> X[1] + u.v, wrote |-> u]

\* unsafe extern "C" fn callback2<F: Fn(u64, u64) -> u64>(_cif, result, args, userdata: &F)
callback2(X, u) == [ret |-> rust_lambda(X[1], X[2]), wrote |-> u]

\* A CallbackMut<u64, u64>: *result = *userdata; *userdata = arg
callback_mut(X, u) == [ret |-> u.v, wrote |-> Plain(X[1])]

\* A CallbackOnce<u64, u64>: takes the value out of the Option if it is there
callback_once(X, u) ==
    IF u.tag = "some" THEN [ret |-> u.v + X[1], wrote |-> None]
    ELSE [ret |-> X[1], wrote |-> None]

\* The callback run on the captured state it was handed; on junk the result is junk.
RunCallback(cb, X, u) ==
    IF u.tag = "junk" THEN [ret |-> Garbage, wrote |-> u]
    ELSE IF cb = "callback" THEN callback(X, u)
    ELSE IF cb = "callback2" THEN callback2(X, u)
    ELSE IF cb = "callback_mut" THEN callback_mut(X, u)
    ELSE callback_once(X, u)

----------------------------------------------------------------------------
(* Closure and ClosureOnce: construction *)

FreeClosureIds == {k \in ClosureIds : closures[k].st = "none"}

ClosureKinds == {"Closure::new", "Closure::new_mut", "ClosureOnce::new"}

IsOnce(kind) == kind = "ClosureOnce::new"

\* assert!(!alloc.is_null(), "closure_alloc: returned null") is in ClosureOnce::new only
ChecksAlloc(kind) == IsOnce(kind)

\* The binding gets a pointer that is not the captured storage.
UserdataPtrStray(kind, env, box) == Null

\* The captured-state pointer handed to prep_closure / prep_closure_mut:
\* userdata as *const U, userdata as *mut U, or the borrow of the boxed Option
UserdataPtr(kind, env, box) == IF IsOnce(kind) THEN box ELSE env

\* The owned state is boxed bare.
BoxedUserdataBare(u) == u

\* Box::new(Some(userdata))
BoxedUserdata(u) == Some(u.v)

\* The source line of the .unwrap() on the install result
UnwrapLine(kind) ==
    IF kind = "Closure::new" THEN 267
    ELSE IF kind = "Closure::new_mut" THEN 303
    ELSE 395

PrepName(kind) == IF kind = "Closure::new" THEN "prep_closure" ELSE "prep_closure_mut"

\* The steps a constructor runs, given whether closure_alloc returned a block.
ConstructSteps(kind, allocOk) ==
    LET pre == IF IsOnce(kind)
               THEN <<"Box::new(cif)", "Box::new(Some(userdata))", "closure_alloc">>
               ELSE <<"Box::new(cif)", "closure_alloc">>
        chk == IF ChecksAlloc(kind) THEN <<"assert">> ELSE <<>>
    IN IF ~allocOk /\ ChecksAlloc(kind)
       THEN pre \o chk
       ELSE pre \o chk \o <<PrepName(kind)>>

\* low::prep_closure / low::prep_closure_mut writing the binding into the block
prep_closure(cif, thunk, userdata) ==
    [thunk |-> thunk, cif |-> cif, userdata |-> userdata]

\* Closure::new, Closure::new_mut, ClosureOnce::new.  c is the Cif moved in, cb
\* the callback, u the captured value; allocOk and installOk are the engine's
\* answers to closure_alloc and to the install.
Construct(kind, c, cb, u, allocOk, installOk) ==
    /\ Idle
    /\ cifs[c].st = "live"
    /\ FreeClosureIds # {}
    /\ PlanValid(cifs[c]) /\ PlanSig(cifs[c]) = CallbackSig(cb)
    /\ LET k == CHOOSE x \in FreeClosureIds : \A y \in FreeClosureIds : x <= y
           e == brk            \* the captured state: the caller's, or the box
           b == brk + 1        \* Box::new(cif)
           t == brk + 2        \* closure_alloc
           steps == ConstructSteps(kind, allocOk)
           ran == steps[Len(steps)] = PrepName(kind)
           stored == IF IsOnce(kind) THEN BoxedUserdata(u) ELSE u
           cell == [val |-> stored, owner |-> IF IsOnce(kind) THEN "box" ELSE "env"]
           block == [st |-> "alive", binding |-> NoBinding, frees |-> 0]
           unwound == \* a panic drops the boxes; a borrowed environment is the
                      \* caller's again, with nothing referring to it
               /\ cifs' = [cifs EXCEPT ![c] = DropCifRec([@ EXCEPT !.addr = b])]
               /\ descs' = FreeDescs(descs, HeapOwned(cifs[c].args, cifs[c].result))
               /\ UNCHANGED <<cells, closures>>
       IN /\ brk' = IF allocOk THEN t + 1 ELSE t
          /\ pending' = pending
          /\ IF ~allocOk /\ ~ran
             THEN \* the null check fires
                  /\ unwound
                  /\ tramps' = tramps
                  /\ lastOp' = [Panic(kind, steps, "closure_alloc",
                                      "closure_alloc: returned null", 386)
                                  EXCEPT !.verdicts = <<"null">>]
             ELSE IF ~allocOk /\ installOk
             THEN \* the engine writes the binding through the null pointer
                  /\ cifs' = [cifs EXCEPT ![c].st = "boxed", ![c].addr = b]
                  /\ cells' = cells @@ (e :> cell)
                  /\ UNCHANGED <<descs, closures, tramps>>
                  /\ lastOp' = [NoOp EXCEPT !.op = kind, !.steps = steps,
                                            !.verdicts = <<"null">>,
                                            !.failed = "SIGSEGV"]
             ELSE IF ~installOk
             THEN \* .unwrap() on Err: the block, if any, has no owner to free it
                  /\ unwound
                  /\ tramps' = IF allocOk THEN tramps @@ (t :> block) ELSE tramps
                  /\ lastOp' = [Panic(kind, steps, PrepName(kind),
                                      "called Result::unwrap() on an Err value",
                                      UnwrapLine(kind))
                                  EXCEPT !.verdicts =
                                      <<IF allocOk THEN "block" ELSE "null", "Err">>]
             ELSE /\ cifs' = [cifs EXCEPT ![c].st = "boxed", ![c].addr = b]
                  /\ cells' = cells @@ (e :> cell)
                  /\ descs' = descs
                  /\ tramps' = tramps @@
                        (t :> [block EXCEPT !.binding =
                                  prep_closure(b, cb, UserdataPtr(kind, e, e))])
                  /\ closures' = [closures EXCEPT ![k] =
                        [st |-> "live", kind |-> kind, cif |-> c, alloc |-> t,
                         code |-> t, userdata |-> e, cb |-> cb, u0 |-> stored,
                         wrote |-> stored]]
                  /\ lastOp' = [NoOp EXCEPT !.op = kind, !.obj = k, !.steps = steps,
                                            !.verdicts = <<"block", "Ok">>]

ClosureNew(c, cb, u, allocOk, installOk) ==
    /\ cb \in CallbacksOf("Closure::new")
    /\ Construct("Closure::new", c, cb, u, allocOk, installOk)

ClosureNewMut(c, cb, u, allocOk, installOk) ==
    /\ cb \in CallbacksOf("Closure::new_mut")
    /\ Construct("Closure::new_mut", c, cb, u, allocOk, installOk)

ClosureOnceNew(c, cb, u, allocOk, installOk) ==
    /\ cb \in CallbacksOf("ClosureOnce::new")
    /\ Construct("ClosureOnce::new", c, cb, u, allocOk, installOk)

----------------------------------------------------------------------------
(* Invocation of a trampoline's code pointer by foreign code *)

\* What a read of the captured state through address a may find.
ReadCell(a) == IF a \in DOMAIN cells THEN {cells[a].val} ELSE {Junk}

\* The binding in the block refers to a Cif that is alive at that address and
\* whose plan is intact.
BindingCifOk(b) ==
    \E c \in CifIds : /\ cifs[c].st \in {"live", "boxed"}
                      /\ cifs[c].addr = b.cif
                      /\ PlanValid(cifs[c])

\* The engine's dispatch: the code pointer leads to the block, whose binding
\* names the thunk, the Cif and the captured state handed to the thunk.
Invoke(k, X) ==
    /\ Idle
    /\ closures[k].st = "live"
    /\ Len(X) = cifs[closures[k].cif].nargs
    /\ LET t == closures[k].code
           b == tramps[t].binding
           ok == tramps[t].st = "alive" /\ b.thunk # "none" /\ BindingCifOk(b)
       IN IF ~ok
          THEN /\ lastOp' = [NoOp EXCEPT !.op = "invoke", !.obj = k, !.args = X,
                                         !.ret = Garbage, !.seen = Junk]
               /\ UNCHANGED <<closures, cells>>
          ELSE \E u \in ReadCell(b.userdata) :
                  LET r == RunCallback(b.thunk, X, u)
                  IN /\ lastOp' = [NoOp EXCEPT !.op = "invoke", !.obj = k,
                                               !.fun = b.thunk, !.args = X,
                                               !.ret = r.ret, !.seen = u,
                                               !.ud = b.userdata]
                     /\ closures' = [closures EXCEPT ![k].wrote = r.wrote]
                     /\ cells' = IF b.userdata \in DOMAIN cells
                                 THEN [cells EXCEPT ![b.userdata].val = r.wrote]
                                 ELSE cells
    /\ UNCHANGED <<cifs, descs, tramps, brk, pending>>

----------------------------------------------------------------------------
(* Closure and ClosureOnce: destruction *)

\* The boxes go first, the trampoline memory last.
DropOrderFieldsFirst(kind) ==
    IF IsOnce(kind) THEN <<"_cif", "_userdata", "closure_free">>
    ELSE <<"_cif", "closure_free">>

\* Drop::drop runs first (low::closure_free(self.alloc)), then the fields are
\* dropped in declaration order: Closure { _cif, alloc, code, _marker },
\* ClosureOnce { alloc, code, _cif, _userdata }.  Raw pointers drop to nothing.
DropOrder(kind) ==
    IF IsOnce(kind) THEN <<"closure_free", "_cif", "_userdata">>
    ELSE <<"closure_free", "_cif">>

\* low::closure_free
closure_free(h, a) == [h EXCEPT ![a].st = "freed", ![a].frees = @ + 1]

\* What is left of a destroyed closure: for a Closure<'a>, the end of its borrow.
DroppedClosure(clo) ==
    [NoClosure EXCEPT !.st = "dropped", !.kind = clo.kind]

\* One step of the destruction of closure k.
DropEffect(step, k) ==
    LET clo == closures[k]
    IN /\ tramps' = IF step = "closure_free" THEN closure_free(tramps, clo.alloc)
                    ELSE tramps
       /\ cifs' = IF step = "_cif" THEN [cifs EXCEPT ![clo.cif] = DropCifRec(@)]
                  ELSE cifs
       /\ descs' = IF step = "_cif"
                   THEN FreeDescs(descs, HeapOwned(cifs[clo.cif].args,
                                                   cifs[clo.cif].result))
                   ELSE descs
       /\ cells' = IF step = "_userdata"
                   THEN [a \in DOMAIN cells \ {clo.userdata} |-> cells[a]]
                   ELSE cells

\* drop(closure): the first step of its destruction; the rest is pending.
ClosureDrop(k) ==
    /\ Idle
    /\ closures[k].st = "live"
    /\ LET steps == DropOrder(closures[k].kind)
       IN /\ DropEffect(Head(steps), k)
          /\ pending' = [clo |-> k, steps |-> Tail(steps)]
          /\ closures' = [closures EXCEPT ![k].st = "dropping"]
          /\ lastOp' = [NoOp EXCEPT !.op = "drop", !.obj = k,
                                    !.steps = <<Head(steps)>>]
    /\ brk' = brk

\* The next pending step of a destruction under way.
DropStep ==
    /\ pending.steps # <<>>
    /\ LET k == pending.clo
           step == Head(pending.steps)
           rest == Tail(pending.steps)
       IN /\ DropEffect(step, k)
          /\ pending' = IF rest = <<>> THEN NoPending ELSE [pending EXCEPT !.steps = rest]
          /\ closures' = [closures EXCEPT ![k] =
                             IF rest = <<>> THEN DroppedClosure(@) ELSE @]
          /\ lastOp' = [lastOp EXCEPT !.steps = Append(@, step)]
    /\ brk' = brk

\* The owner of a borrowed environment lets it go; the lifetime 'a of
\* Closure<'a> forbids this while a Closure borrowing it exists.
EnvRelease ==
    /\ Idle
    /\ \E e \in DOMAIN cells :
          /\ cells[e].owner = "env"
          /\ \A k \in ClosureIds :
                closures[k].st \in {"live", "dropping"} => closures[k].userdata # e
          /\ cells' = [a \in DOMAIN cells \ {e} |-> cells[a]]
    /\ lastOp' = [NoOp EXCEPT !.op = "env_release"]
    /\ UNCHANGED <<cifs, descs, closures, tramps, brk, pending>>

----------------------------------------------------------------------------
(* Specification *)

Init ==
    /\ cifs = [c \in CifIds |-> NoCif]
    /\ descs = [a \in 1..Len(Prims) |-> [kind |-> Prims[a], elems |-> <<>>]]
    /\ closures = [k \in ClosureIds |-> NoClosure]
    /\ tramps = <<>>
    /\ cells = <<>>
    /\ brk = HeapBase
    /\ pending = NoPending
    /\ lastOp = NoOp

\* The operations on a Cif its owner can reach.
NextCif ==
    \/ \E sig \in Signatures, accept \in BOOLEAN : CifNew(sig, accept)
    \/ \E c \in CifIds : CifClone(c)
    \/ \E c \in CifIds : CifDrop(c)
    \/ \E c \in CifIds, f \in Funs, a \in SeqsUpTo(ArgVals, MaxArgs) : CifCall(c, f, a)
    \/ \E c \in CifIds, abi \in FfiAbi : CifSetAbi(c, abi)
    \/ \E c \in CifIds : CifAsRawPtr(c)

\* The life of trampolines, over Cifs built for the callbacks' signatures.
NextClosure ==
    \/ \E cb \in UNION {CallbacksOf(kd) : kd \in ClosureKinds}, accept \in BOOLEAN :
          CifNew(CallbackSig(cb), accept)
    \/ \E c \in CifIds, cb \in CallbacksOf("Closure::new"), allocOk, installOk \in BOOLEAN :
          \E u \in UserdataOf(cb) : ClosureNew(c, cb, u, allocOk, installOk)
    \/ \E c \in CifIds, cb \in CallbacksOf("Closure::new_mut"), allocOk, installOk \in BOOLEAN :
          \E u \in UserdataOf(cb) : ClosureNewMut(c, cb, u, allocOk, installOk)
    \/ \E c \in CifIds, cb \in CallbacksOf("ClosureOnce::new"), allocOk, installOk \in BOOLEAN :
          \E u \in UserdataOf(cb) : ClosureOnceNew(c, cb, u, allocOk, installOk)
    \/ \E k \in ClosureIds, X \in SeqsUpTo(ArgVals, MaxArgs) : Invoke(k, X)
    \/ \E k \in ClosureIds : ClosureDrop(k)
    \/ DropStep
    \/ EnvRelease

Next == NextCif \/ NextClosure

\* The whole layer
Spec == Init /\ [][Next]_vars

\* A Cif and its owner: new, clone, call, set_abi, as_raw_ptr, drop
SpecCif == Init /\ [][NextCif]_vars

\* Trampolines: construction, invocation by foreign code, destruction
SpecClosure == Init /\ [][NextClosure]_vars

----------------------------------------------------------------------------
(* Properties *)

\* The signature a Cif was constructed for, read from the descriptors it owns.
OwnSig(cif) ==
    [args |-> [i \in 1..Len(descs[cif.args].elems) |-> KindAt(descs[cif.args].elems[i])],
     result |-> KindAt(cif.result)]

\* C1: Cif::call compares the number of argument pointers with the argument
\* count recorded at construction before anything else; when they differ the
\* call panics and low::call is never reached, when they agree low::call is
\* reached exactly once.
C1_CallChecksArgCount ==
    lastOp.op = "Cif::call" =>
        LET cif == cifs[lastOp.obj]
        IN IF Len(descs[cif.args].elems) # Len(lastOp.args)
           THEN /\ lastOp.failed = "nargs"
                /\ lastOp.diag = "Cif::call: passed wrong number of arguments"
                /\ lastOp.invoked = 0
                /\ lastOp.steps = <<"assert_eq">>
           ELSE /\ lastOp.failed = "none"
                /\ lastOp.invoked = 1
                /\ lastOp.steps = <<"assert_eq", "low::call">>

\* A call with the wrong number of argument pointers has just been refused.
C1_Witness ==
    /\ lastOp.op = "Cif::call"
    /\ lastOp.failed = "nargs"
    /\ Len(lastOp.args) < cifs[lastOp.obj].nargs

\* C2: after any sequence of new, clone, set_abi, call and drop, the plan of
\* every live Cif refers to that Cif's own descriptor storage, which is alive and
\* shared with no other live Cif; so a call through a clone returns what the
\* function computes, as a call through the original does, also once the
\* original is dropped.
C2_CloneOwnsItsArrays ==
    /\ \A c \in CifIds : cifs[c].st = "live" =>
          /\ cifs[c].arg_types = cifs[c].args
          /\ cifs[c].rtype = cifs[c].result
          /\ PlanValid(cifs[c])
          /\ \A d \in CifIds \ {c} : cifs[d].st = "live" =>
                HeapOwned(cifs[c].args, cifs[c].result)
                    \cap HeapOwned(cifs[d].args, cifs[d].result) = {}
    /\ \A c \in CifIds :
          (/\ lastOp.op = "Cif::call" /\ lastOp.obj = c /\ lastOp.invoked = 1
           /\ cifs[c].origin # 0
           /\ OwnSig(cifs[c]) = FunSig(lastOp.fun))
          => lastOp.ret = Apply(lastOp.fun, lastOp.args)

\* A clone whose original has been dropped has just been called and returned 12
\* for (5, 7).
C2_Witness ==
    \E d \in CifIds :
        /\ cifs[d].st = "live" /\ cifs[d].origin # 0
        /\ cifs[cifs[d].origin].st = "dropped"
        /\ lastOp.op = "Cif::call" /\ lastOp.obj = d
        /\ lastOp.args = <<5, 7>> /\ lastOp.ret = 12

\* C5 as stated: Cif::new succeeds for any descriptors, and a call on a function
\* of matching signature returns what the function computes.
C5_NewAlwaysSucceeds ==
    /\ lastOp.op = "Cif::new" => lastOp.failed = "none" /\ cifs[lastOp.obj].st = "live"
    /\ (/\ lastOp.op = "Cif::call" /\ lastOp.invoked = 1
        /\ OwnSig(cifs[lastOp.obj]) = FunSig(lastOp.fun))
       => lastOp.ret = Apply(lastOp.fun, lastOp.args)

\* C5 amended: Cif::new succeeds for the descriptors the engine's prepare
\* accepts, recording their count, and panics with "low::prep_cif" for those it
\* rejects; every call through a Cif on a function of matching signature returns
\* what the function computes from the pointed-to arguments.
C5_NewSucceedsWhenAccepted ==
    /\ lastOp.op = "Cif::new" =>
          IF lastOp.verdicts = <<"Ok">>
          THEN /\ lastOp.failed = "none"
               /\ cifs[lastOp.obj].st = "live"
               /\ cifs[lastOp.obj].nargs = Len(descs[cifs[lastOp.obj].args].elems)
               /\ cifs[lastOp.obj].abi = ffi_abi_FFI_DEFAULT_ABI
          ELSE /\ lastOp.failed = "prep_cif" /\ lastOp.diag = "low::prep_cif"
               /\ lastOp.obj = 0
    /\ (/\ lastOp.op = "Cif::call" /\ lastOp.invoked = 1
        /\ OwnSig(cifs[lastOp.obj]) = FunSig(lastOp.fun))
       => lastOp.ret = Apply(lastOp.fun, lastOp.args)

\* add_it has just been called through a Cif for (i64, i64) -> i64 with (5, 7)
\* and returned 12.
C5_Witness ==
    /\ lastOp.op = "Cif::call"
    /\ lastOp.fun = "add_it" /\ lastOp.args = <<5, 7>> /\ lastOp.ret = 12
    /\ cifs[lastOp.obj].origin = 0

\* C8: no step changes a live Cif's argument count, plan addresses, owned
\* descriptors or location, and only Cif::set_abi on that Cif changes its ABI tag.
C8_SetAbiChangesOnlyAbi ==
    [][\A c \in CifIds :
          (cifs[c].st = "live" /\ cifs'[c].st = "live") =>
              /\ cifs'[c].nargs = cifs[c].nargs
              /\ cifs'[c].arg_types = cifs[c].arg_types
              /\ cifs'[c].rtype = cifs[c].rtype
              /\ cifs'[c].args = cifs[c].args
              /\ cifs'[c].result = cifs[c].result
              /\ cifs'[c].addr = cifs[c].addr
              /\ \A a \in OwnedDescs(cifs[c].args, cifs[c].result) :
                    a \in DOMAIN descs' /\ descs'[a] = descs[a]
              /\ cifs'[c].abi # cifs[c].abi =>
                    lastOp'.op = "Cif::set_abi" /\ lastOp'.obj = c]_vars

\* set_abi has just given a Cif with arguments another calling convention.
C8_Witness ==
    /\ lastOp.op = "Cif::set_abi"
    /\ cifs[lastOp.obj].abi # ffi_abi_FFI_DEFAULT_ABI
    /\ cifs[lastOp.obj].nargs = 2

\* The addresses the binding in block t holds refer to a boxed Cif that is alive
\* at that address with its plan intact, and to live captured-state storage.
BindingAlive(t) ==
    LET b == tramps[t].binding
    IN /\ \E c \in CifIds : /\ cifs[c].st = "boxed"
                            /\ cifs[c].addr = b.cif
                            /\ PlanValid(cifs[c])
       /\ b.userdata \in DOMAIN cells

\* C3: destruction of either trampoline variant releases the trampoline memory
\* first and drops the boxed Cif and the boxed captured state afterwards; in
\* every state in which a trampoline block with an installed binding has not
\* been released, the Cif and the captured state the binding points at are
\* alive at those addresses.
C3_BindingOutlivedByTargets ==
    /\ \A t \in DOMAIN tramps :
          (tramps[t].st = "alive" /\ tramps[t].binding # NoBinding) => BindingAlive(t)
    /\ \A k \in ClosureIds :
          closures[k].st = "dropping" => tramps[closures[k].alloc].st = "freed"
    /\ lastOp.op = "drop" => lastOp.steps[1] = "closure_free"

\* A ClosureOnce is half destroyed: its trampoline memory is released, its boxed
\* Cif and boxed captured state are still to be dropped.
C3_Witness ==
    \E k \in ClosureIds :
        /\ closures[k].st = "dropping" /\ closures[k].kind = "ClosureOnce::new"
        /\ pending.steps = <<"_cif", "_userdata">>
        /\ tramps[closures[k].alloc].st = "freed"
        /\ cifs[closures[k].cif].st = "boxed"
        /\ closures[k].userdata \in DOMAIN cells

\* The engine steps, and the step a panic's message and location identify.
EngineSteps == {"prep_cif", "closure_alloc", "prep_closure", "prep_closure_mut"}

DiagStep(o) ==
    IF o.diag = "low::prep_cif" THEN {"prep_cif"}
    ELSE IF o.diag = "closure_alloc: returned null" THEN {"closure_alloc"}
    ELSE IF o.diag = "called Result::unwrap() on an Err value"
            /\ o.at \in {UnwrapLine(kd) : kd \in ClosureKinds}
    THEN {"prep_closure", "prep_closure_mut"}
    ELSE {}

\* The engine steps an operation ran, in order.
EngineRun(o) == SelectSeq(o.steps, LAMBDA x : x \in EngineSteps)

\* C4: whenever an engine step of a constructor fails (prepare rejects,
\* closure_alloc returns no block, the install is refused), that step is the last
\* engine step the constructor runs, and the constructor panics with a
\* diagnostic that identifies that step.
C4_FailureStopsAtFailedStep ==
    \A i \in 1..Len(lastOp.verdicts) :
        lastOp.verdicts[i] \in {"Err", "null"} =>
            /\ Len(EngineRun(lastOp)) = i
            /\ lastOp.failed = EngineRun(lastOp)[i]
            /\ lastOp.failed \in DiagStep(lastOp)

\* C6: every invocation of the code pointer of a Closure::new trampoline bound
\* to callback F and captured value U with arguments X returns F(X, U); the
\* callback finds U every time, and the captured storage still holds U.
C6_ImmutableClosureReturnsF ==
    \A k \in ClosureIds :
        (lastOp.op = "invoke" /\ lastOp.obj = k /\ closures[k].kind = "Closure::new") =>
            /\ lastOp.seen = closures[k].u0
            /\ lastOp.ret = RunCallback(closures[k].cb, lastOp.args, closures[k].u0).ret
            /\ lastOp.ret # Garbage
            /\ cells[closures[k].userdata].val = closures[k].u0

\* The closure of the test, with env = 5, has just returned 12 for 7.
C6_Witness ==
    \E k \in ClosureIds :
        /\ lastOp.op = "invoke" /\ lastOp.obj = k
        /\ closures[k].kind = "Closure::new" /\ closures[k].cb = "callback"
        /\ closures[k].u0 = Plain(5)
        /\ lastOp.args = <<7>> /\ lastOp.ret = 12

\* An invocation of closure k's code pointer is this step.
InvokeStep(k) ==
    /\ closures[k].st = "live"
    /\ lastOp'.op = "invoke" /\ lastOp'.obj = k
    /\ <<lastOp', cells'>> # <<lastOp, cells>>

\* C7: every invocation of a Closure::new_mut trampoline hands the callback the
\* storage given to the constructor, and the callback finds there what the
\* previous invocation's callback left (the initial value on the first); what
\* it leaves is in that storage afterwards.
C7_MutationSeenByNextInvocation ==
    [][\A k \in ClosureIds :
          (closures[k].kind = "Closure::new_mut" /\ InvokeStep(k)) =>
              /\ lastOp'.ud = closures[k].userdata
              /\ lastOp'.seen = closures[k].wrote
              /\ cells'[closures[k].userdata].val = closures'[k].wrote]_vars

\* A later invocation has just found the value an earlier one stored, not the
\* initial one.
C7_Witness ==
    \E k \in ClosureIds :
        /\ lastOp.op = "invoke" /\ lastOp.obj = k
        /\ closures[k].kind = "Closure::new_mut"
        /\ closures[k].u0 = Plain(6)
        /\ lastOp.seen = Plain(7) /\ lastOp.ret = 7
        /\ closures[k].wrote = Plain(5)

\* C9: a ClosureOnce holds the captured value as Some(..) in its own box, and the
\* binding points at that box; no invocation is refused: each one runs the
\* callback on that box, leaves the trampoline callable and reports no error,
\* and once a callback has taken the value every later one finds None.
C9_OnceIsNotEnforced ==
    [][\A k \in ClosureIds :
          (closures[k].kind = "ClosureOnce::new" /\ closures[k].st = "live") =>
              /\ closures[k].u0.tag = "some"
              /\ closures[k].wrote = closures[k].u0 =>
                    cells[closures[k].userdata].val = closures[k].u0
              /\ tramps[closures[k].alloc].binding.userdata = closures[k].userdata
              /\ cells[closures[k].userdata].owner = "box"
              /\ InvokeStep(k) =>
                    /\ lastOp'.failed = "none"
                    /\ closures'[k].st = "live"
                    /\ lastOp'.ud = closures[k].userdata
                    /\ lastOp'.seen = cells[closures[k].userdata].val
                    /\ cells[closures[k].userdata].val = None =>
                          /\ lastOp'.seen = None
                          /\ cells'[closures[k].userdata].val = None]_vars

\* A second invocation has just found the captured state empty, and returned.
C9_Witness ==
    \E k \in ClosureIds :
        /\ lastOp.op = "invoke" /\ lastOp.obj = k
        /\ closures[k].kind = "ClosureOnce::new" /\ closures[k].st = "live"
        /\ lastOp.seen = None /\ lastOp.failed = "none"
        /\ lastOp.ret = 7

\* C10: no trampoline block is released twice, and every block that is still
\* allocated belongs to a Closure or ClosureOnce that exists.
C10_BlocksReleasedOnce ==
    \A t \in DOMAIN tramps :
        /\ tramps[t].frees <= 1
        /\ tramps[t].st = "alive" =>
              \E k \in ClosureIds : /\ closures[k].st \in {"live", "dropping"}
                                    /\ closures[k].alloc = t

====
